---- MODULE Spec2Model ----
(***************************************************************************)
(* Model of climate_meter.ino: an Arduino Nano polls a BMP280, a DHT22 and *)
(* three DS18B20 probes and answers a trigger byte on the serial line with *)
(* a fixed 33-byte Modbus-like frame guarded by a table-driven CRC-16.     *)
(*                                                                         *)
(* A float is modelled by its IEEE-754 single-precision fields             *)
(* [s, e, m] (sign, biased exponent, 23-bit mantissa); FloatBytes lays it  *)
(* out in memory the way the little-endian AVR target does, so that the    *)
(* memcpy calls of communicate() copy real bytes.                          *)
(***************************************************************************)
EXTENDS Integers, Sequences, FiniteSets, TLC

VARIABLES
  pc,         \* 0 = setup() not yet run; 1..10 = next statement of loop()
  bmpFound,   \* bool bmpFound
  bmpP,       \* float bmpP
  bmpT,       \* float bmpT
  dhtH,       \* float dhtH
  dhtT,       \* float dhtT
  dsT,        \* float dsT[ONE_WIRE_CNT]
  modbusBuf,  \* byte modbusBuf[MODBUS_BUF_LEN]
  serialIn,   \* bytes waiting in the Serial receive buffer
  serialOut,  \* bytes handed to Serial.write by the last program step
  dsFound,    \* history: result of dsSensors[i].getAddress() in initDS()
  lastStep,   \* history: the last program step that ran
  lastAdapter,\* history: the last adapter step that ran
  drvCalls,   \* history: driver calls made by the last program step
  drvRet,     \* history: values those driver calls returned
  waited,     \* history: adapter steps completed while a trigger byte waits
  trigSeen,   \* history: trigger bytes read by the last program step
  outcome,    \* history: per channel, the result of its adapter's last step
  ran,        \* history: the adapter steps that have completed at least once
  debugBuild, \* the build has DEBUG defined (line 43)
  crcIn,      \* input buffer of the stand-alone CRC16 check
  crcOut      \* result of the stand-alone CRC16 check, -1 before the call

vars == <<pc, bmpFound, bmpP, bmpT, dhtH, dhtT, dsT, modbusBuf, serialIn,
          serialOut, dsFound, lastStep, lastAdapter, drvCalls, drvRet,
          waited, trigSeen, outcome, ran, debugBuild, crcIn, crcOut>>

progVars == <<pc, bmpFound, bmpP, bmpT, dhtH, dhtT, dsT, modbusBuf, serialIn,
              serialOut, dsFound, lastStep, lastAdapter, drvCalls, drvRet,
              waited, trigSeen, outcome, ran, debugBuild>>

crcVars == <<crcIn, crcOut>>

----------------------------------------------------------------------------
(* Bounds of the model *)

\* capacity of the modelled Serial receive buffer
MaxInbuf == 2

\* longest buffer given to the stand-alone CRC16 check
MaxCrcLen == 3

\* the history counter `waited` saturates here
MaxWaited == 3

----------------------------------------------------------------------------
(* Program constants *)

ONE_WIRE_CNT == 3

MODBUS_BUF_LEN == 33

TRIGGER == 223

Float(s, e, m) == [s |-> s, e |-> e, m |-> m]

\* -100.0f = 0xC2C80000
EMPTY_VAL == Float(1, 133, 4718592)

\* -127.0f = 0xC2FE0000, what getTempCByIndex returns for a missing device
DEVICE_DISCONNECTED_C == Float(1, 133, 8257536)

\* quiet NaN 0x7FC00000, what the DHT and BMP drivers return on a failed read
NAN == Float(0, 255, 4194304)

isnan(f) == f.e = 255 /\ f.m # 0

\* values the drivers can hand back (one good reading and the failure value)
BmpPressureReturns == {Float(0, 143, 4580992)}            \* 101325.0

BmpTemperatureReturns == {Float(0, 131, 3407872)}         \* 22.5

DhtHumidityReturns == {Float(0, 132, 3407872), NAN}       \* 45.0

DhtTemperatureReturns == {Float(0, 131, 3145728), NAN}    \* 22.0

DsTempReturns == {Float(0, 131, 2149581), DEVICE_DISCONNECTED_C} \* 20.1

\* answers of the three getAddress() calls of initDS(); the program keeps no
\* record of them, so they only feed the history variable dsFound
DsDetectOutcomes ==
  { [i \in 0..2 |-> TRUE], [i \in 0..2 |-> FALSE] }

\* bytes the host can put on the line
InBytes == {3, TRIGGER}

----------------------------------------------------------------------------
(* Bit operations on bytes and words *)

RECURSIVE XorBits(_, _, _)
XorBits(a, b, n) ==
  IF n = 0 THEN 0
  ELSE (((a % 2) + (b % 2)) % 2) + 2 * XorBits(a \div 2, b \div 2, n - 1)

\* exclusive or of two nibbles, tabulated once
XorNibble == [a \in 0..15 |-> [b \in 0..15 |-> XorBits(a, b, 4)]]

Xor8(a, b) ==
  XorNibble[a % 16][b % 16] + (16 * XorNibble[a \div 16][b \div 16])

Xor16(a, b) == Xor8(a % 256, b % 256) + (256 * Xor8(a \div 256, b \div 256))

\* variant: big-endian image, highest-order byte first
FloatBytesBigEndian(f) ==
  << (f.s * 128) + (f.e \div 2),
     ((f.e % 2) * 128) + (f.m \div 65536),
     (f.m \div 256) % 256,
     f.m % 256 >>

\* memory image of a float on the little-endian target, lowest address first
FloatBytes(f) ==
  << f.m % 256,
     (f.m \div 256) % 256,
     ((f.e % 2) * 128) + (f.m \div 65536),
     (f.s * 128) + (f.e \div 2) >>

\* variant: high byte at the lowest address
ShortBytesBigEndian(w) ==
  LET bytes[v \in 0..65535] == << v \div 256, v % 256 >>
  IN  bytes[w]

\* memory image of a 16-bit unsigned short, lowest address first; the
\* argument is evaluated once
ShortBytes(w) ==
  LET bytes[v \in 0..65535] == << v % 256, v \div 256 >>
  IN  bytes[w]

\* memcpy(buf + off, src, Len(src)); buf is 1-based, off is the C offset;
\* the two memory arguments are evaluated once, when the call is made
memcpy(buf, off, src) ==
  LET copy[dst \in Seq(Nat), bytes \in Seq(Nat)] ==
        [i \in 1..Len(dst) |->
           IF i > off /\ i <= off + Len(bytes) THEN bytes[i - off] ELSE dst[i]]
  IN  copy[buf, src]

----------------------------------------------------------------------------
(* Checksum *)

crcHiTable ==
  <<
     0, 193, 129, 64, 1, 192, 128, 65, 1, 192, 128, 65, 0, 193, 129, 64,
     1, 192, 128, 65, 0, 193, 129, 64, 0, 193, 129, 64, 1, 192, 128, 65,
     1, 192, 128, 65, 0, 193, 129, 64, 0, 193, 129, 64, 1, 192, 128, 65,
     0, 193, 129, 64, 1, 192, 128, 65, 1, 192, 128, 65, 0, 193, 129, 64,
     1, 192, 128, 65, 0, 193, 129, 64, 0, 193, 129, 64, 1, 192, 128, 65,
     0, 193, 129, 64, 1, 192, 128, 65, 1, 192, 128, 65, 0, 193, 129, 64,
     0, 193, 129, 64, 1, 192, 128, 65, 1, 192, 128, 65, 0, 193, 129, 64,
     1, 192, 128, 65, 0, 193, 129, 64, 0, 193, 129, 64, 1, 192, 128, 65,
     1, 192, 128, 65, 0, 193, 129, 64, 0, 193, 129, 64, 1, 192, 128, 65,
     0, 193, 129, 64, 1, 192, 128, 65, 1, 192, 128, 65, 0, 193, 129, 64,
     0, 193, 129, 64, 1, 192, 128, 65, 1, 192, 128, 65, 0, 193, 129, 64,
     1, 192, 128, 65, 0, 193, 129, 64, 0, 193, 129, 64, 1, 192, 128, 65,
     0, 193, 129, 64, 1, 192, 128, 65, 1, 192, 128, 65, 0, 193, 129, 64,
     1, 192, 128, 65, 0, 193, 129, 64, 0, 193, 129, 64, 1, 192, 128, 65,
     1, 192, 128, 65, 0, 193, 129, 64, 0, 193, 129, 64, 1, 192, 128, 65,
     0, 193, 129, 64, 1, 192, 128, 65, 1, 192, 128, 65, 0, 193, 129, 64
  >>

crcLoTable ==
  <<
     0, 192, 193, 1, 195, 3, 2, 194, 198, 6, 7, 199, 5, 197, 196, 4,
     204, 12, 13, 205, 15, 207, 206, 14, 10, 202, 203, 11, 201, 9, 8, 200,
     216, 24, 25, 217, 27, 219, 218, 26, 30, 222, 223, 31, 221, 29, 28, 220,
     20, 212, 213, 21, 215, 23, 22, 214, 210, 18, 19, 211, 17, 209, 208, 16,
     240, 48, 49, 241, 51, 243, 242, 50, 54, 246, 247, 55, 245, 53, 52, 244,
     60, 252, 253, 61, 255, 63, 62, 254, 250, 58, 59, 251, 57, 249, 248, 56,
     40, 232, 233, 41, 235, 43, 42, 234, 238, 46, 47, 239, 45, 237, 236, 44,
     228, 36, 37, 229, 39, 231, 230, 38, 34, 226, 227, 35, 225, 33, 32, 224,
     160, 96, 97, 161, 99, 163, 162, 98, 102, 166, 167, 103, 165, 101, 100, 164,
     108, 172, 173, 109, 175, 111, 110, 174, 170, 106, 107, 171, 105, 169, 168, 104,
     120, 184, 185, 121, 187, 123, 122, 186, 190, 126, 127, 191, 125, 189, 188, 124,
     180, 116, 117, 181, 119, 183, 182, 118, 114, 178, 179, 115, 177, 113, 112, 176,
     80, 144, 145, 81, 147, 83, 82, 146, 150, 86, 87, 151, 85, 149, 148, 84,
     156, 92, 93, 157, 95, 159, 158, 94, 90, 154, 155, 91, 153, 89, 88, 152,
     136, 72, 73, 137, 75, 139, 138, 74, 78, 142, 143, 79, 141, 77, 76, 140,
     68, 132, 133, 69, 135, 71, 70, 134, 130, 66, 67, 131, 65, 129, 128, 64
  >>

\* the while (len--) loop of CRC16 at its pass i: buf[i] is *buf++, and crcHi
\* and crcLo are declared byte
CRC16Loop[buf \in Seq(Nat), len \in Nat, i \in Nat, crcHi \in 0..255, crcLo \in 0..255] ==
  IF i <= len
    THEN LET index == Xor8(crcLo, buf[i])
         IN  CRC16Loop[buf, len, i + 1,
                       crcLoTable[index + 1],
                       Xor8(crcHi, crcHiTable[index + 1])]
    ELSE (crcHi * 256) + crcLo

\* variant: the registers start at 0x00 instead of 0xFF
CRC16ZeroInit(buf, len) == CRC16Loop[buf, len, 1, 0, 0]

CRC16(buf, len) == CRC16Loop[buf, len, 1, 255, 255]

----------------------------------------------------------------------------
(* loop() and the program counter *)

\* variant: the handler call between readDS(0) and readDS(1) is missing
LoopBodyNoComm ==
  << "readBMP", "communicate", "readDHT", "communicate", "readDS0",
     "readDS1", "communicate", "readDS2", "communicate" >>

LoopBody ==
  << "readBMP", "communicate", "readDHT", "communicate", "readDS0",
     "communicate", "readDS1", "communicate", "readDS2", "communicate" >>

\* loop() returns and is called again by the Arduino core
\* variant: loop() is not called again after its first return
NextPcOnce(p) == IF p = Len(LoopBody) THEN p ELSE p + 1

NextPc(p) == IF p = Len(LoopBody) THEN 1 ELSE p + 1

At(stmt) == pc > 0 /\ LoopBody[pc] = stmt

DsStep(index) == << "readDS0", "readDS1", "readDS2" >>[index + 1]

HasTrigger(in) == \E i \in 1..Len(in) : in[i] = TRIGGER

Min(a, b) == IF a < b THEN a ELSE b

RECURSIVE CountTrigger(_)
CountTrigger(in) ==
  IF in = <<>> THEN 0
  ELSE (IF Head(in) = TRIGGER THEN 1 ELSE 0) + CountTrigger(Tail(in))

\* a driver return value that reports a failed read
ReadFailed(v) == isnan(v) \/ v = DEVICE_DISCONNECTED_C

\* the result of an adapter step for its channels first..first+Len(rets)-1:
\* the values read, or the sentinel for all of them when a read failed
Result(old, first, rets) ==
  [k \in DOMAIN old |->
     IF k >= first /\ k < first + Len(rets)
       THEN IF \E j \in 1..Len(rets) : ReadFailed(rets[j])
              THEN EMPTY_VAL
              ELSE rets[k - first + 1]
       ELSE old[k]]

\* bookkeeping shared by the adapter steps: control returns to loop()
AdapterReturns(stmt) ==
  /\ pc' = NextPc(pc)
  /\ lastStep' = stmt
  /\ lastAdapter' = stmt
  /\ serialOut' = <<>>
  /\ waited' = IF HasTrigger(serialIn) THEN Min(waited + 1, MaxWaited) ELSE 0
  /\ trigSeen' = 0
  /\ ran' = ran \cup { stmt }
  /\ UNCHANGED <<bmpFound, modbusBuf, serialIn, dsFound, debugBuild, crcVars>>

----------------------------------------------------------------------------
(* Initial state: the globals as initialised at lines 57-134 *)

\* variant: the initializer list of dsT names its first element only, the
\* other probes start at 0.0
InitFirstProbeOnly ==
  /\ pc = 0
  /\ bmpFound = FALSE
  /\ bmpP = EMPTY_VAL
  /\ bmpT = EMPTY_VAL
  /\ dhtH = EMPTY_VAL
  /\ dhtT = EMPTY_VAL
  /\ dsT = [i \in 0..(ONE_WIRE_CNT - 1) |->
              IF i = 0 THEN EMPTY_VAL ELSE Float(0, 0, 0)]
  /\ modbusBuf = [i \in 1..MODBUS_BUF_LEN |->
                    IF i = 2 THEN 3 ELSE IF i = 3 THEN 28 ELSE 0]
  /\ serialIn = <<>>
  /\ serialOut = <<>>
  /\ dsFound = [i \in 0..(ONE_WIRE_CNT - 1) |-> FALSE]
  /\ lastStep = "none"
  /\ lastAdapter = "none"
  /\ drvCalls = <<>>
  /\ drvRet = <<>>
  /\ waited = 0
  /\ trigSeen = 0
  /\ outcome = [k \in 0..6 |-> EMPTY_VAL]
  /\ ran = {}
  /\ debugBuild = FALSE
  /\ crcIn = <<>>
  /\ crcOut = -1

Init ==
  /\ pc = 0
  /\ bmpFound = FALSE
  /\ bmpP = EMPTY_VAL
  /\ bmpT = EMPTY_VAL
  /\ dhtH = EMPTY_VAL
  /\ dhtT = EMPTY_VAL
  /\ dsT = [i \in 0..(ONE_WIRE_CNT - 1) |-> EMPTY_VAL]
  /\ modbusBuf = [i \in 1..MODBUS_BUF_LEN |->
                    IF i = 2 THEN 3 ELSE IF i = 3 THEN 28 ELSE 0]
  /\ serialIn = <<>>
  /\ serialOut = <<>>
  /\ dsFound = [i \in 0..(ONE_WIRE_CNT - 1) |-> FALSE]
  /\ lastStep = "none"
  /\ lastAdapter = "none"
  /\ drvCalls = <<>>
  /\ drvRet = <<>>
  /\ waited = 0
  /\ trigSeen = 0
  /\ outcome = [k \in 0..6 |-> EMPTY_VAL]
  /\ ran = {}
  /\ debugBuild = FALSE
  /\ crcIn = <<>>
  /\ crcOut = -1

\* the same globals in either build: with line 43 as it is (DEBUG not
\* defined) or with DEBUG defined
InitBuilds ==
  /\ pc = 0
  /\ bmpFound = FALSE
  /\ bmpP = EMPTY_VAL
  /\ bmpT = EMPTY_VAL
  /\ dhtH = EMPTY_VAL
  /\ dhtT = EMPTY_VAL
  /\ dsT = [i \in 0..(ONE_WIRE_CNT - 1) |-> EMPTY_VAL]
  /\ modbusBuf = [i \in 1..MODBUS_BUF_LEN |->
                    IF i = 2 THEN 3 ELSE IF i = 3 THEN 28 ELSE 0]
  /\ serialIn = <<>>
  /\ serialOut = <<>>
  /\ dsFound = [i \in 0..(ONE_WIRE_CNT - 1) |-> FALSE]
  /\ lastStep = "none"
  /\ lastAdapter = "none"
  /\ drvCalls = <<>>
  /\ drvRet = <<>>
  /\ waited = 0
  /\ trigSeen = 0
  /\ outcome = [k \in 0..6 |-> EMPTY_VAL]
  /\ ran = {}
  /\ debugBuild \in BOOLEAN
  /\ crcIn = <<>>
  /\ crcOut = -1

----------------------------------------------------------------------------
(* setup(): initBMP, initDHT, initDS *)

\* bmp.begin(BMP_ADDR) succeeded or not
initBMP(beginOk) == IF beginOk THEN TRUE ELSE bmpFound

Setup ==
  /\ pc = 0
  /\ \E beginOk \in BOOLEAN :
       bmpFound' = initBMP(beginOk)
  /\ \E found \in DsDetectOutcomes :
       dsFound' = found
  /\ pc' = 1
  /\ lastStep' = "setup"
  /\ drvCalls' = <<>>
  /\ drvRet' = <<>>
  /\ UNCHANGED <<bmpP, bmpT, dhtH, dhtT, dsT, modbusBuf, serialIn, serialOut,
                 lastAdapter, waited, trigSeen, outcome, ran, debugBuild,
                 crcVars>>

----------------------------------------------------------------------------
(* Adapter steps *)

\* variant: the pressure step reads without looking at bmpFound
ReadBMPNoSkip ==
  /\ At("readBMP")
  /\ \E p \in BmpPressureReturns, t \in BmpTemperatureReturns :
       /\ bmpP' = p
       /\ bmpT' = t
       /\ drvCalls' = << "bmp.readPressure", "bmp.readTemperature" >>
       /\ drvRet' = << p, t >>
       /\ outcome' = Result(outcome, 0, << p, t >>)
  /\ AdapterReturns("readBMP")
  /\ UNCHANGED <<dhtH, dhtT, dsT>>

\* variant: the test of bmpFound is inverted
ReadBMPInverted ==
  /\ At("readBMP")
  /\ IF ~bmpFound
       THEN \E p \in BmpPressureReturns, t \in BmpTemperatureReturns :
              /\ bmpP' = p
              /\ bmpT' = t
              /\ drvCalls' = << "bmp.readPressure", "bmp.readTemperature" >>
              /\ drvRet' = << p, t >>
              /\ outcome' = Result(outcome, 0, << p, t >>)
       ELSE /\ UNCHANGED <<bmpP, bmpT>>
            /\ drvCalls' = <<>>
            /\ drvRet' = <<>>
            /\ outcome' = Result(outcome, 0, << NAN, NAN >>)
  /\ AdapterReturns("readBMP")
  /\ UNCHANGED <<dhtH, dhtT, dsT>>

ReadBMP ==
  /\ At("readBMP")
  /\ IF bmpFound
       THEN \E p \in BmpPressureReturns, t \in BmpTemperatureReturns :
              /\ bmpP' = p
              /\ bmpT' = t
              /\ drvCalls' = << "bmp.readPressure", "bmp.readTemperature" >>
              /\ drvRet' = << p, t >>
              /\ outcome' = Result(outcome, 0, << p, t >>)
       ELSE /\ UNCHANGED <<bmpP, bmpT>>
            /\ drvCalls' = <<>>
            /\ drvRet' = <<>>
            /\ outcome' = Result(outcome, 0, << NAN, NAN >>)
  /\ AdapterReturns("readBMP")
  /\ UNCHANGED <<dhtH, dhtT, dsT>>

\* variant: the sentinel is stored only when both reads are not-a-number
ReadDHTBothNan ==
  /\ At("readDHT")
  /\ \E h \in DhtHumidityReturns, t \in DhtTemperatureReturns :
       /\ IF isnan(h) /\ isnan(t)
            THEN dhtH' = EMPTY_VAL /\ dhtT' = EMPTY_VAL
            ELSE dhtH' = h /\ dhtT' = t
       /\ drvCalls' = << "dht.readHumidity", "dht.readTemperature" >>
       /\ drvRet' = << h, t >>
       /\ outcome' = Result(outcome, 2, << h, t >>)
  /\ AdapterReturns("readDHT")
  /\ UNCHANGED <<bmpP, bmpT, dsT>>

ReadDHT ==
  /\ At("readDHT")
  /\ \E h \in DhtHumidityReturns, t \in DhtTemperatureReturns :
       /\ IF isnan(h) \/ isnan(t)
            THEN dhtH' = EMPTY_VAL /\ dhtT' = EMPTY_VAL
            ELSE dhtH' = h /\ dhtT' = t
       /\ drvCalls' = << "dht.readHumidity", "dht.readTemperature" >>
       /\ drvRet' = << h, t >>
       /\ outcome' = Result(outcome, 2, << h, t >>)
  /\ AdapterReturns("readDHT")
  /\ UNCHANGED <<bmpP, bmpT, dsT>>

\* variant: a probe channel that holds a reading is not overwritten
ReadDSKeepFirst(index) ==
  /\ At(DsStep(index))
  /\ \E t \in DsTempReturns :
       /\ dsT' = IF dsT[index] = EMPTY_VAL THEN [dsT EXCEPT ![index] = t]
                                           ELSE dsT
       /\ drvCalls' = << "ds.requestTemperatures", "ds.getTempCByIndex" >>
       /\ drvRet' = << t >>
       /\ outcome' = Result(outcome, 4 + index, << t >>)
  /\ AdapterReturns(DsStep(index))
  /\ UNCHANGED <<bmpP, bmpT, dhtH, dhtT>>

\* variant: the reading of probe index lands in the next probe's slot
ReadDSNeighbour(index) ==
  /\ At(DsStep(index))
  /\ \E t \in DsTempReturns :
       /\ dsT' = [dsT EXCEPT ![(index + 1) % ONE_WIRE_CNT] = t]
       /\ drvCalls' = << "ds.requestTemperatures", "ds.getTempCByIndex" >>
       /\ drvRet' = << t >>
       /\ outcome' = Result(outcome, 4 + index, << t >>)
  /\ AdapterReturns(DsStep(index))
  /\ UNCHANGED <<bmpP, bmpT, dhtH, dhtT>>

ReadDS(index) ==
  /\ At(DsStep(index))
  /\ \E t \in DsTempReturns :
       /\ dsT' = [dsT EXCEPT ![index] = t]
       /\ drvCalls' = << "ds.requestTemperatures", "ds.getTempCByIndex" >>
       /\ drvRet' = << t >>
       /\ outcome' = Result(outcome, 4 + index, << t >>)
  /\ AdapterReturns(DsStep(index))
  /\ UNCHANGED <<bmpP, bmpT, dhtH, dhtT>>

----------------------------------------------------------------------------
(* communicate() *)

\* variant: if instead of while, one byte is read per invocation
DrainOneByte(in, sendResponse) ==
  IF Len(in) > 0
    THEN [rest |-> Tail(in), sendResponse |-> Head(in) = TRIGGER]
    ELSE [rest |-> in, sendResponse |-> sendResponse]

\* variant: only the last byte read decides
DrainLastByte(in, sendResponse) ==
  [rest |-> <<>>,
   sendResponse |-> IF Len(in) > 0 THEN in[Len(in)] = TRIGGER
                                   ELSE sendResponse]

RECURSIVE DrainUntilTrigger(_, _)
\* variant: the loop is left as soon as a trigger byte has been read
DrainUntilTrigger(in, sendResponse) ==
  IF Len(in) > 0
    THEN IF Head(in) = TRIGGER
           THEN [rest |-> Tail(in), sendResponse |-> TRUE]
           ELSE DrainUntilTrigger(Tail(in), sendResponse)
    ELSE [rest |-> in, sendResponse |-> sendResponse]

RECURSIVE Drain(_, _)
\* while (Serial.available() > 0) { inByte = Serial.read(); ... }
Drain(in, sendResponse) ==
  IF Len(in) > 0
    THEN Drain(Tail(in), IF Head(in) = TRIGGER THEN TRUE ELSE sendResponse)
    ELSE [rest |-> in, sendResponse |-> sendResponse]

\* variant: the payload copies start one byte early
CopyPayloadEarly(buf) ==
  LET b1 == memcpy(buf, 2, FloatBytes(bmpP))
      b2 == memcpy(b1, 6, FloatBytes(bmpT))
      b3 == memcpy(b2, 10, FloatBytes(dhtH))
      b4 == memcpy(b3, 14, FloatBytes(dhtT))
  IN  memcpy(b4, 18,
             FloatBytes(dsT[0]) \o FloatBytes(dsT[1]) \o FloatBytes(dsT[2]))

\* the five payload copies of lines 259-263; dsT is one 12-byte array
CopyPayload(buf) ==
  LET b1 == memcpy(buf, 3, FloatBytes(bmpP))
      b2 == memcpy(b1, 7, FloatBytes(bmpT))
      b3 == memcpy(b2, 11, FloatBytes(dhtH))
      b4 == memcpy(b3, 15, FloatBytes(dhtT))
  IN  memcpy(b4, 19,
             FloatBytes(dsT[0]) \o FloatBytes(dsT[1]) \o FloatBytes(dsT[2]))

\* variant: the checksum covers the whole buffer, stale trailer included
AppendCrcWholeBuf(buf) ==
  LET crc == CRC16(buf, MODBUS_BUF_LEN)
  IN  memcpy(buf, 31, ShortBytes(crc))

\* lines 264-265: the checksum is copied behind the payload
AppendCrc(buf) ==
  LET crc == CRC16(buf, MODBUS_BUF_LEN - 2)
  IN  memcpy(buf, 31, ShortBytes(crc))

\* variant: the function body is compiled in whether or not DEBUG is defined
CommunicateAnyBuild ==
  /\ At("communicate")
  /\ IF FALSE
       THEN /\ UNCHANGED <<serialIn, modbusBuf, waited>>
            /\ serialOut' = <<>>
            /\ trigSeen' = 0
       ELSE LET d == Drain(serialIn, FALSE)
            IN  /\ serialIn' = d.rest
                /\ IF d.sendResponse
                     THEN /\ modbusBuf' = AppendCrc(CopyPayload(modbusBuf))
                          /\ serialOut' = SubSeq(modbusBuf', 1, MODBUS_BUF_LEN)
                     ELSE /\ UNCHANGED modbusBuf
                          /\ serialOut' = <<>>
                /\ waited' = IF HasTrigger(d.rest) THEN waited ELSE 0
                /\ trigSeen' = CountTrigger(serialIn) - CountTrigger(d.rest)
  /\ pc' = NextPc(pc)
  /\ lastStep' = "communicate"
  /\ drvCalls' = <<>>
  /\ drvRet' = <<>>
  /\ UNCHANGED <<bmpFound, bmpP, bmpT, dhtH, dhtT, dsT, dsFound, lastAdapter,
                 outcome, ran, debugBuild, crcVars>>

Communicate ==
  /\ At("communicate")
  /\ IF debugBuild
       THEN \* #ifndef DEBUG leaves the function body empty
            /\ UNCHANGED <<serialIn, modbusBuf, waited>>
            /\ serialOut' = <<>>
            /\ trigSeen' = 0
       ELSE LET d == Drain(serialIn, FALSE)
            IN  /\ serialIn' = d.rest
                /\ IF d.sendResponse
                     THEN /\ modbusBuf' = AppendCrc(CopyPayload(modbusBuf))
                          /\ serialOut' = SubSeq(modbusBuf', 1, MODBUS_BUF_LEN)
                     ELSE /\ UNCHANGED modbusBuf
                          /\ serialOut' = <<>>
                /\ waited' = IF HasTrigger(d.rest) THEN waited ELSE 0
                /\ trigSeen' = CountTrigger(serialIn) - CountTrigger(d.rest)
  /\ pc' = NextPc(pc)
  /\ lastStep' = "communicate"
  /\ drvCalls' = <<>>
  /\ drvRet' = <<>>
  /\ UNCHANGED <<bmpFound, bmpP, bmpT, dhtH, dhtT, dsT, dsFound, lastAdapter,
                 outcome, ran, debugBuild, crcVars>>

\* the UART receive interrupt stores one byte; the program does not see it
\* until communicate() polls Serial.available()
SerialReceive(b) ==
  /\ Len(serialIn) < MaxInbuf
  /\ serialIn' = Append(serialIn, b)
  /\ UNCHANGED <<pc, bmpFound, bmpP, bmpT, dhtH, dhtT, dsT, modbusBuf,
                 serialOut, dsFound, lastStep, lastAdapter, drvCalls, drvRet,
                 waited, trigSeen, outcome, ran, debugBuild, crcVars>>

Next ==
  \/ Setup
  \/ ReadBMP
  \/ ReadDHT
  \/ \E index \in 0..(ONE_WIRE_CNT - 1) : ReadDS(index)
  \/ Communicate
  \/ \E b \in InBytes : SerialReceive(b)

Spec == Init /\ [][Next]_vars

\* the program built without and with DEBUG
SpecBuilds == InitBuilds /\ [][Next]_vars

\* the steps of the main program; the serial interrupt is not one of them
ProgramStep ==
  \/ Setup
  \/ ReadBMP
  \/ ReadDHT
  \/ \E index \in 0..(ONE_WIRE_CNT - 1) : ReadDS(index)
  \/ Communicate

\* the processor keeps executing the main program, and every driver call
\* returns: a program step that stays possible is eventually taken
SpecFair == Spec /\ WF_vars(ProgramStep)

----------------------------------------------------------------------------
(* Stand-alone use of CRC16 on bounded buffers *)

\* "123456789", the usual check input of CRC catalogues
CheckVector == << 49, 50, 51, 52, 53, 54, 55, 56, 57 >>

\* bytes used behind the first byte of a test buffer
CrcTailBytes == {0, 3, TRIGGER, 255}

RECURSIVE TailSeqs(_)
\* the sequences over CrcTailBytes of length at most n
TailSeqs(n) ==
  IF n = 0 THEN { <<>> }
  ELSE LET S == TailSeqs(n - 1)
       IN  S \cup { Append(t, b) : t \in {u \in S : Len(u) = n - 1},
                                   b \in CrcTailBytes }

\* the empty buffer, every first byte (hence every table index) followed by
\* every short tail, and the check input
CrcInputs ==
  { <<>> } \cup { <<b>> \o t : b \in 0..255, t \in TailSeqs(MaxCrcLen - 1) }
           \cup { CheckVector }

InitCRC ==
  /\ pc = 0
  /\ bmpFound = FALSE
  /\ bmpP = EMPTY_VAL
  /\ bmpT = EMPTY_VAL
  /\ dhtH = EMPTY_VAL
  /\ dhtT = EMPTY_VAL
  /\ dsT = [i \in 0..(ONE_WIRE_CNT - 1) |-> EMPTY_VAL]
  /\ modbusBuf = [i \in 1..MODBUS_BUF_LEN |->
                    IF i = 2 THEN 3 ELSE IF i = 3 THEN 28 ELSE 0]
  /\ serialIn = <<>>
  /\ serialOut = <<>>
  /\ dsFound = [i \in 0..(ONE_WIRE_CNT - 1) |-> FALSE]
  /\ lastStep = "none"
  /\ lastAdapter = "none"
  /\ drvCalls = <<>>
  /\ drvRet = <<>>
  /\ waited = 0
  /\ trigSeen = 0
  /\ outcome = [k \in 0..6 |-> EMPTY_VAL]
  /\ ran = {}
  /\ debugBuild = FALSE
  /\ crcIn \in CrcInputs
  /\ crcOut = -1

CallCRC16 ==
  /\ crcOut = -1
  /\ crcOut' = CRC16(crcIn, Len(crcIn))
  /\ UNCHANGED <<progVars, crcIn>>

NextCRC == CallCRC16

SpecCRC == InitCRC /\ [][NextCRC]_vars

----------------------------------------------------------------------------
(* Reference definitions used by the properties *)

RECURSIVE RefCrcShift(_, _)
\* n rounds of the bit-serial reflected CRC-16, polynomial 0xA001
RefCrcShift(crc, n) ==
  IF n > 0 /\ crc \in 0..65535
    THEN RefCrcShift(IF crc % 2 = 1 THEN Xor16(crc \div 2, 40961)
                                    ELSE crc \div 2,
                     n - 1)
    ELSE crc

RECURSIVE RefCrcFrom(_, _)
RefCrcFrom(crc, buf) ==
  IF buf # <<>> /\ crc \in 0..65535
    THEN RefCrcFrom(RefCrcShift(Xor16(crc, Head(buf)), 8), Tail(buf))
    ELSE crc

\* bit-by-bit CRC-16: initial value 0xFFFF, no final XOR
RefCrc16(buf) == RefCrcFrom(65535, buf)

\* the float whose little-endian memory image is the 4 bytes b
DecodeFloat(b) ==
  [ s |-> b[4] \div 128,
    e |-> ((b[4] % 128) * 2) + (b[3] \div 128),
    m |-> ((b[3] % 128) * 65536) + (b[2] * 256) + b[1] ]

\* the Store in wire order: Pressure, PressureTemp, Humidity, HumidityTemp,
\* Probe0Temp, Probe1Temp, Probe2Temp
Channel(k) == << bmpP, bmpT, dhtH, dhtT, dsT[0], dsT[1], dsT[2] >>[k + 1]

\* payload slice of channel k of frame f (k = 0..6)
Slice(f, k) == SubSeq(f, 4 + (4 * k), 7 + (4 * k))

FrameSent == Len(serialOut) = MODBUS_BUF_LEN

AdapterSteps == { "readBMP", "readDHT", "readDS0", "readDS1", "readDS2" }

----------------------------------------------------------------------------
(* Properties *)

\* C1: a handler invocation that drained at least one 0xDF byte wrote exactly
\* one 33-byte frame; an invocation that drained none wrote nothing.
C1_FrameIffTrigger ==
  lastStep = "communicate" =>
    /\ trigSeen > 0 => Len(serialOut) = MODBUS_BUF_LEN
    /\ trigSeen = 0 => serialOut = <<>>

\* C1 witness: one frame answers an invocation that drained 0xDF twice
C1_Witness ==
  lastStep = "communicate" /\ trigSeen = 2 /\ Len(serialOut) = MODBUS_BUF_LEN

\* C2: the last two bytes of an emitted frame are the CRC16 of its first 31
\* bytes, low byte at offset 31 and high byte at offset 32.
C2_CrcTrailer ==
  FrameSent =>
    LET crc == CRC16(serialOut, 31)
    IN  serialOut[32] = crc % 256 /\ serialOut[33] = crc \div 256

\* C2 witness: a frame sent with a real pressure reading in its payload
C2_Witness ==
  FrameSent /\ bmpP # EMPTY_VAL /\ serialOut[32] # serialOut[33]

\* C3: the table-driven CRC16 equals the bit-by-bit reflected CRC-16
\* (polynomial 0xA001, initial value 0xFFFF, no final XOR) on every buffer;
\* the empty buffer gives 0xFFFF.
C3_CrcMatchesReference ==
  crcOut # -1 =>
    /\ crcOut = RefCrc16(crcIn)
    /\ crcIn = <<>> => crcOut = 65535

\* C3 witness: the check input "123456789" gave 0x4B37
C3_Witness == crcIn = CheckVector /\ crcOut = 19255

\* C4: the three header bytes of the output buffer are 0x00, 0x03, 0x1C in
\* every state, and so in every emitted frame.
C4_HeaderConstant ==
  /\ modbusBuf[1] = 0 /\ modbusBuf[2] = 3 /\ modbusBuf[3] = 28
  /\ FrameSent => serialOut[1] = 0 /\ serialOut[2] = 3 /\ serialOut[3] = 28

\* C4 witness: a frame sent while one channel holds the sentinel and another
\* holds a reading
C4_Witness ==
  FrameSent /\ dsT[2] = EMPTY_VAL /\ dhtH # EMPTY_VAL

\* C5: in an emitted frame the payload slice of every channel k = 0..6
\* decodes to the value the Store holds for channel k at that invocation;
\* the 28 payload bytes are therefore a function of the Store alone.
C5_PayloadIsStore ==
  FrameSent => \A k \in 0..6 : DecodeFloat(Slice(serialOut, k)) = Channel(k)

\* C5 witness: a frame carrying the sentinel for probe 1 and a reading for
\* probe 0
C5_Witness ==
  /\ FrameSent
  /\ DecodeFloat(Slice(serialOut, 5)) = EMPTY_VAL
  /\ DecodeFloat(Slice(serialOut, 4)) \in DsTempReturns \ {DEVICE_DISCONNECTED_C}

\* a driver call of the last step returned not-a-number
ReturnedNan == \E i \in 1..Len(drvRet) : isnan(drvRet[i])

\* the adapter that follows adapter a in the cycle
AdapterAfter(a) ==
  CASE a = "none"    -> "readBMP"
    [] a = "readBMP" -> "readDHT"
    [] a = "readDHT" -> "readDS0"
    [] a = "readDS0" -> "readDS1"
    [] a = "readDS1" -> "readDS2"
    [] a = "readDS2" -> "readBMP"

\* C6: after an adapter step whose read failed (sensor not detected at init,
\* not-a-number result, failed read) every channel of that adapter holds the
\* sentinel -100.0.
C6_FailedReadStoresSentinel ==
  /\ (lastStep = "readBMP" /\ (~bmpFound \/ ReturnedNan))
        => bmpP = EMPTY_VAL /\ bmpT = EMPTY_VAL
  /\ (lastStep = "readDHT" /\ ReturnedNan)
        => dhtH = EMPTY_VAL /\ dhtT = EMPTY_VAL
  /\ \A i \in 0..(ONE_WIRE_CNT - 1) :
       (lastStep = DsStep(i) /\ drvRet = << DEVICE_DISCONNECTED_C >>)
          => dsT[i] = EMPTY_VAL

\* C7: the program steps run in the order readBMP, readDHT, readDS(0),
\* readDS(1), readDS(2), each followed by exactly one handler invocation
\* before the next adapter step, and the cycle repeats from readBMP.
C7_LoopOrder ==
  [][ pc' # pc =>
        /\ lastStep' \in AdapterSteps \cup { "communicate", "setup" }
        /\ lastStep' = "setup" => lastStep = "none"
        /\ lastStep' \in AdapterSteps =>
             /\ lastStep \in { "setup", "communicate" }
             /\ lastStep' = AdapterAfter(lastAdapter)
             /\ lastAdapter' = lastStep'
        /\ lastStep' = "communicate" =>
             /\ lastStep \in AdapterSteps
             /\ lastAdapter' = lastAdapter ]_vars

\* C7 witness: readBMP has run again after readDS(2) and its handler call
C7_Witness ==
  /\ lastStep = "readBMP"
  /\ dsT[2] # EMPTY_VAL
  /\ At("communicate")

\* C8: a trigger byte in the receive buffer waits for at most one adapter
\* step: once an adapter step has returned with a trigger byte buffered, the
\* next program step is the handler invocation and it emits the frame.
C8_BoundedResponse ==
  /\ [](waited <= 1)
  /\ [](waited = 1 => HasTrigger(serialIn) /\ At("communicate"))
  /\ [][ (waited = 1 /\ pc' # pc) =>
           /\ lastStep' = "communicate"
           /\ Len(serialOut') = MODBUS_BUF_LEN
           /\ waited' = 0 ]_vars

\* C8 witness: a trigger byte that arrived around readDS(1) is answered by
\* the handler invocation that follows readDS(1)
C8_Witness ==
  /\ lastStep = "communicate"
  /\ lastAdapter = "readDS1"
  /\ trigSeen > 0
  /\ FrameSent
  /\ waited = 0

\* C9 as stated: a probe not detected at initialization is skipped by every
\* later probe step (no bus transaction) and its channel holds the sentinel.
C9_AbsentProbeSkipped ==
  \A i \in 0..(ONE_WIRE_CNT - 1) :
    (lastStep = DsStep(i) /\ ~dsFound[i])
       => drvCalls = <<>> /\ dsT[i] = EMPTY_VAL

\* C9 amended: the skip exists for the pressure sensor only. When the BMP280
\* was not detected at initialization every pressure step makes no driver
\* call and leaves Pressure and PressureTemp at the sentinel; the humidity
\* step and every probe step call their driver on every cycle, whether or
\* not the probe answered at initialization.
C9_OnlyPressureSkipped ==
  /\ (lastStep = "readBMP" /\ ~bmpFound)
        => drvCalls = <<>> /\ bmpP = EMPTY_VAL /\ bmpT = EMPTY_VAL
  /\ (lastStep = "readBMP" /\ bmpFound) => drvCalls # <<>>
  /\ lastStep = "readDHT" => drvCalls # <<>>
  /\ \A i \in 0..(ONE_WIRE_CNT - 1) :
       lastStep = DsStep(i) => drvCalls # <<>>

\* C9 witness: in a later cycle a probe that did not answer at
\* initialization is read over the bus while the undetected pressure sensor
\* still shows the sentinel
C9_Witness ==
  /\ lastStep = "readDS0"
  /\ ~dsFound[0]
  /\ drvCalls # <<>>
  /\ dsT[2] # EMPTY_VAL
  /\ ~bmpFound
  /\ bmpP = EMPTY_VAL

Owner(k) ==
  << "readBMP", "readBMP", "readDHT", "readDHT",
     "readDS0", "readDS1", "readDS2" >>[k + 1]

\* C11: every frame carries, for each channel, the outcome (the value read,
\* or the sentinel when the read failed) of the most recent completed step of
\* the channel's adapter, the step just before the handler invocation
\* included.
C11_FrameShowsLatestOutcomes ==
  (lastStep = "communicate" /\ FrameSent) =>
     \A k \in 0..6 : DecodeFloat(Slice(serialOut, k)) = outcome[k]

\* C12: before setup() and the first adapter step all seven channels hold the
\* sentinel -100.0; a channel holds the sentinel as long as no step of its
\* own adapter has completed, and every frame sent in that time decodes the
\* sentinel for it.
C12_SentinelUntilFirstStep ==
  /\ ran = {} => \A k \in 0..6 : Channel(k) = EMPTY_VAL
  /\ \A k \in 0..6 :
       Owner(k) \notin ran =>
         /\ Channel(k) = EMPTY_VAL
         /\ FrameSent => DecodeFloat(Slice(serialOut, k)) = EMPTY_VAL

\* C12 witness: a frame of the first cycle, sent after the humidity step
\* stored a reading and before probe 1 and probe 2 were read for the first
\* time
C12_Witness ==
  /\ FrameSent
  /\ "readDHT" \in ran
  /\ "readDS1" \notin ran
  /\ "readDS2" \notin ran
  /\ DecodeFloat(Slice(serialOut, 2)) # EMPTY_VAL
  /\ DecodeFloat(Slice(serialOut, 5)) = EMPTY_VAL
  /\ DecodeFloat(Slice(serialOut, 6)) = EMPTY_VAL

\* C13: a step changes the stored value of a channel only if it is a step of
\* the adapter that owns the channel; a handler invocation changes no
\* channel, whether or not it sends a frame.
C13_OnlyOwnerChanges ==
  [][ /\ \A k \in 0..6 :
           Channel(k)' # Channel(k) => (pc' # pc /\ lastStep' = Owner(k))
      /\ (pc' # pc /\ lastStep' = "communicate") =>
           \A k \in 0..6 : Channel(k)' = Channel(k)
    ]_vars

\* C13 witness: a handler invocation of a later cycle has sent a frame right
\* after a pressure step, while probe 2 still holds what its own step of the
\* cycle before stored and the humidity channels hold their reading
C13_Witness ==
  /\ lastStep = "communicate"
  /\ FrameSent
  /\ lastAdapter = "readBMP"
  /\ ran = AdapterSteps
  /\ dsT[2] = DEVICE_DISCONNECTED_C
  /\ dhtH # EMPTY_VAL

\* C14: the main program can always take a next step, and when every driver
\* call returns each adapter step and the handler are executed again and
\* again forever, whatever the sensors return and whatever bytes arrive.
C14_LoopNeverStops ==
  /\ [](ENABLED ProgramStep)
  /\ \A s \in AdapterSteps \cup { "communicate" } : []<>(lastStep = s)

\* C14 witness: a later cycle in which the pressure sensor is absent, probe 0
\* failed, the humidity step has just returned not-a-number and unread bytes
\* wait in the receive buffer
C14_Witness ==
  /\ ran = AdapterSteps
  /\ lastStep = "readDHT"
  /\ ReturnedNan
  /\ ~bmpFound
  /\ dsT[0] = DEVICE_DISCONNECTED_C
  /\ serialIn # <<>>

\* C15: every handler invocation reads the receive buffer until it is empty,
\* counts every trigger byte it found there, and sends one 33-byte frame
\* exactly when it read at least one trigger byte itself; what earlier
\* invocations read plays no part, and several trigger bytes read together
\* are answered by one frame.
C15_TriggerStateNotCarried ==
  [][ (pc' # pc /\ lastStep' = "communicate") =>
        /\ serialIn' = <<>>
        /\ trigSeen' = CountTrigger(serialIn)
        /\ Len(serialOut') = (IF HasTrigger(serialIn) THEN MODBUS_BUF_LEN ELSE 0)
    ]_vars

\* C15 witness: one invocation has read two trigger bytes, emptied the
\* receive buffer and sent a single frame
C15_Witness ==
  /\ lastStep = "communicate"
  /\ trigSeen = 2
  /\ serialIn = <<>>
  /\ Len(serialOut) = MODBUS_BUF_LEN

\* the humidity pair a frame carries
FrameHumidityPair(f) ==
  << DecodeFloat(Slice(f, 2)), DecodeFloat(Slice(f, 3)) >>

\* a humidity pair is coupled: both sentinel, or both a number other than the
\* sentinel
Coupled(pair) ==
  \/ pair = << EMPTY_VAL, EMPTY_VAL >>
  \/ /\ ~isnan(pair[1]) /\ pair[1] # EMPTY_VAL
     /\ ~isnan(pair[2]) /\ pair[2] # EMPTY_VAL

\* C16: Humidity and HumidityTemp are both the sentinel or both the values
\* returned by the most recent humidity step, in the Store and in every
\* frame; a step in which either read returned not-a-number leaves both at
\* the sentinel.
C16_HumidityCoupled ==
  /\ Coupled(<< dhtH, dhtT >>)
  /\ << dhtH, dhtT >> = << outcome[2], outcome[3] >>
  /\ lastStep = "readDHT" =>
       IF ReturnedNan THEN << dhtH, dhtT >> = << EMPTY_VAL, EMPTY_VAL >>
                      ELSE << dhtH, dhtT >> = drvRet
  /\ FrameSent =>
       /\ Coupled(FrameHumidityPair(serialOut))
       /\ FrameHumidityPair(serialOut) = << outcome[2], outcome[3] >>

\* C16 witness: in a later cycle the frame sent right after a humidity step
\* shows both humidity channels at the sentinel
C16_Witness ==
  /\ FrameSent
  /\ lastAdapter = "readDHT"
  /\ FrameHumidityPair(serialOut) = << EMPTY_VAL, EMPTY_VAL >>
  /\ "readDS2" \in ran

\* C17: when the pressure sensor was not detected at initialization the flag
\* stays false for the rest of the run, no pressure step calls the driver,
\* Pressure and PressureTemp hold the sentinel in every state, and every
\* frame carries the sentinel for both.
C17_AbsentPressureSensor ==
  /\ [](~bmpFound =>
          /\ bmpP = EMPTY_VAL
          /\ bmpT = EMPTY_VAL
          /\ lastStep = "readBMP" => (drvCalls = <<>> /\ drvRet = <<>>)
          /\ FrameSent =>
               /\ DecodeFloat(Slice(serialOut, 0)) = EMPTY_VAL
               /\ DecodeFloat(Slice(serialOut, 1)) = EMPTY_VAL)
  /\ [][pc # 0 => bmpFound' = bmpFound]_vars

\* C17 witness: the sensor was not detected, and in a later cycle the frame
\* sent right after a pressure step carries the sentinel for both pressure
\* channels next to a humidity reading
C17_Witness ==
  /\ ~bmpFound
  /\ ran = AdapterSteps
  /\ lastAdapter = "readBMP"
  /\ FrameSent
  /\ DecodeFloat(Slice(serialOut, 0)) = EMPTY_VAL
  /\ DecodeFloat(Slice(serialOut, 1)) = EMPTY_VAL
  /\ DecodeFloat(Slice(serialOut, 2)) # EMPTY_VAL

\* C18: CRC16 run over all 33 bytes of a frame that was sent, the two
\* checksum bytes included, returns 0.
C18_FrameResidueZero ==
  FrameSent => CRC16(serialOut, MODBUS_BUF_LEN) = 0

\* C18 witness: a frame was sent whose checksum bytes are not both zero and
\* whose payload carries a probe reading and a failed probe read
C18_Witness ==
  /\ FrameSent
  /\ << serialOut[32], serialOut[33] >> # << 0, 0 >>
  /\ DecodeFloat(Slice(serialOut, 4)) = DEVICE_DISCONNECTED_C
  /\ DecodeFloat(Slice(serialOut, 5)) \notin { EMPTY_VAL, DEVICE_DISCONNECTED_C }

\* C19: in a build with DEBUG defined no frame is ever written and no step
\* takes a byte out of the receive buffer or changes the frame buffer,
\* whatever bytes arrive; in the build without DEBUG every handler invocation
\* empties the receive buffer and sends a frame exactly when it read a
\* trigger byte. The build never changes during a run.
C19_DebugDisablesResponse ==
  /\ [](debugBuild => serialOut = <<>>)
  /\ [][ debugBuild =>
           /\ Len(serialIn') >= Len(serialIn)
           /\ SubSeq(serialIn', 1, Len(serialIn)) = serialIn
           /\ modbusBuf' = modbusBuf
       ]_vars
  /\ [][ (~debugBuild /\ pc' # pc /\ lastStep' = "communicate") =>
           /\ serialIn' = <<>>
           /\ (Len(serialOut') = MODBUS_BUF_LEN) <=> HasTrigger(serialIn)
       ]_vars
  /\ [][ debugBuild' = debugBuild ]_vars

\* C19 witness: in the debug build a handler invocation of a later cycle has
\* returned with a trigger byte still in the receive buffer and nothing
\* written
C19_Witness ==
  /\ debugBuild
  /\ lastStep = "communicate"
  /\ ran = AdapterSteps
  /\ HasTrigger(serialIn)
  /\ serialOut = <<>>

====
